---- MODULE Spec2Model ----
(***************************************************************************)
(* PDFGenerator (src/src/PDFGenerator.ts): one generator instance, its     *)
(* two fields, and the asynchronous calls made on it.  Every await of the  *)
(* source is a suspension point: an action is the code that runs from one  *)
(* await's resolution to the next await.  JavaScript objects are functions *)
(* from the keys that are present to their values.                         *)
(***************************************************************************)
EXTENDS Integers, Sequences, FiniteSets, TLC

VARIABLES
    data,        \* this.data
    pdfOptions,  \* this.pdfOptions
    tempDir,     \* whether <__dirname>/temp exists
    files,       \* the PDF files on disk (paths)
    browsers,    \* the puppeteer browsers that are open: <<call, launch no>>
    calls,       \* the asynchronous calls made so far, in invocation order
    list,        \* an array of buffers a caller holds and passes to mergePDFs
    merged,      \* the caller's last mergePDFs call: the array as it was
                 \* passed, and what the call did
    probe        \* history: the fields as one observed generatePdf call found
                 \* them when it was invoked, and whether they were written
                 \* before it read them

vars == <<data, pdfOptions, tempDir, files, browsers, calls, list, merged, probe>>

----------------------------------------------------------------------------
(* Bounds *)

\* asynchronous calls made on the instance in one behaviour
MaxCalls == 2
\* length of the pageData array given to generateMultiPagePdf
MaxPages == 3
\* length of the array given to mergePDFs
MaxBuffers == 4

----------------------------------------------------------------------------
(* Values *)

EmptyObj == [k \in {} |-> TRUE]

\* { ...a, ...b }: the keys of both, b's value where both have the key
Spread(a, b) ==
    [k \in (DOMAIN a) \cup (DOMAIN b) |-> IF k \in DOMAIN b THEN b[k] ELSE a[k]]

\* a JavaScript string or optional field used as a condition: undefined and ""
\* are falsy
Truthy(obj, key) == key \in DOMAIN obj /\ obj[key] # ""

\* x || {} for an optional object field
OrEmpty(obj, key) == IF key \in DOMAIN obj THEN obj[key] ELSE EmptyObj

\* HTML documents a caller passes to fromContent: a one-page and a two-page
\* document
Contents == {"A", "B"}

\* files that can be read, and what they hold; every other path is missing
IndexHtml == "index.html"
MissingPath == "/nonexistent/path.html"
Paths == {IndexHtml, MissingPath}
Readable(p) == p = IndexHtml
FileText(p) == "F"

\* PDFOptions objects
DefaultOptions == [format |-> "A4"]
OutPath == "out.pdf"
PaperFormats == {"A4", "Letter"}
\* what a caller passes to setPdfOptions: no option, a format the engine does
\* not know
OptionChoices == {EmptyObj, [format |-> "A7x"]}
\* and before generatePdfStream: a format, a path of the caller's own
StreamOptionChoices == {[format |-> "Letter"], [path |-> OutPath]}

\* the names Date.now() and Math.random() can produce
TempNames == {"temp/pdf_1.pdf", "temp/pdf_2.pdf"}

----------------------------------------------------------------------------
(* The rendering engine and the error messages *)

\* how many pages the engine lays a document out on
PageCount(html) == IF html = "B" THEN 2 ELSE 1

\* page.pdf(options) of a page whose document is html and whose
\* window.PDFGeneratorData is injected: the PDF's pages, in order
Render(html, options, injected) ==
    [n \in 1..PageCount(html) |->
        [html |-> html, options |-> options, injected |-> injected, no |-> n]]

\* page.pdf throws on a paper format it does not know
ValidOptions(options) ==
    "format" \in DOMAIN options => options.format \in PaperFormats

\* the message of the error it throws then
FormatError(options) ==
    <<"Cannot read properties of undefined (reading 'in')">>

\* the engine failing at the step a call is suspended on
EngineError(step) == <<"engine failed at ", step>>

\* fs.promises.readFile rejecting
ReadError(filePath) ==
    <<"Error: ENOENT: no such file or directory, open '", filePath, "'">>

\* `Error reading file at path: "${filePath}"\n${error}`
FromFileMessage(filePath, error) ==
    <<"Error reading file at path: \"", filePath, "\"\n">> \o error

\* `Generate PDF Error: ${error.message || error}`
GeneratePdfMessage(message) == <<"Generate PDF Error: ">> \o message

\* `Generate Multi Page PDF Error: ${error.message || error}`
MultiPageMessage(message) == <<"Generate Multi Page PDF Error: ">> \o message

\* a message contains a string
Contains(message, s) == \E n \in DOMAIN message : message[n] = s

----------------------------------------------------------------------------
(* mergePDFs *)

\* the message of the TypeError new hummus.PDFRStreamForBuffer(undefined)
\* throws
NoBufferError ==
    <<"Cannot read properties of undefined (reading 'byteLength')">>

RECURSIVE AppendAllInFront(_, _)
\* a writer that puts each appended document before the pages it has
AppendAllInFront(pages, buffers) ==
    IF buffers = <<>> THEN pages
    ELSE AppendAllInFront(Head(buffers) \o pages, Tail(buffers))

RECURSIVE AppendAll(_, _)
\* buffers.forEach(appendPDFPagesFromPDF): the writer's pages after appending
\* the pages of each buffer in turn
AppendAll(pages, buffers) ==
    IF buffers = <<>> THEN pages
    ELSE AppendAll(pages \o Head(buffers), Tail(buffers))

\* a mergePDFs that takes the first buffer without removing it from the array
MergePDFsKeepingList(buffers) ==
    IF buffers = <<>>
    THEN [threw |-> TRUE, error |-> NoBufferError, out |-> <<>>, list |-> buffers]
    ELSE [threw |-> FALSE, error |-> <<>>,
          out |-> AppendAll(Head(buffers), Tail(buffers)),
          list |-> buffers]

\* a mergePDFs that returns an empty buffer when it is given no buffer
MergePDFsOfNothing(buffers) ==
    [threw |-> FALSE, error |-> <<>>,
     out |-> IF buffers = <<>> THEN <<>> ELSE AppendAll(Head(buffers), Tail(buffers)),
     list |-> IF buffers = <<>> THEN <<>> ELSE Tail(buffers)]

\* mergePDFs(buffers): whether it threw, the document returned, and the
\* caller's array afterwards (buffers.shift() removes its first element)
MergePDFs(buffers) ==
    IF buffers = <<>>
    THEN [threw |-> TRUE, error |-> NoBufferError, out |-> <<>>, list |-> buffers]
    ELSE [threw |-> FALSE, error |-> <<>>,
          out |-> AppendAll(Head(buffers), Tail(buffers)),
          list |-> Tail(buffers)]

----------------------------------------------------------------------------
(* Calls *)

\* the awaits of generatePdf on the engine, browser.close() included
EnginePcs == {"launch", "newPage", "evaluate", "setContent", "pdf", "close"}

\* the call has not yet read this.data / this.pdfOptions
BeforeContentRead(c) == c.pc \in {"launch", "newPage", "evaluate"}
BeforeOptionsRead(c) == c.pc \in {"launch", "newPage", "evaluate", "setContent"}

\* the call's promise is settled
Returned(c) == c.pc \in {"resolved", "streaming", "unlinking", "unlinked"}
Rejected(c) == c.pc = "rejected"
Settled(c) == Returned(c) \/ Rejected(c)

NewCall(op) ==
    [op |-> op, pc |-> "new",
     filePath |-> "",        \* fromFile: the path being read
     props |-> EmptyObj,     \* generatePdf: its argument
     injected |-> EmptyObj,  \* window.PDFGeneratorData of the page
     html |-> "",            \* what page.setContent was given
     options |-> EmptyObj,   \* what page.pdf was given
     tmp |-> "",             \* tempPdfPath
     launches |-> 0,         \* browsers this call has launched
     result |-> <<>>,        \* the buffer returned
     error |-> <<>>,         \* the message of the error thrown
     pageData |-> <<>>,      \* generateMultiPagePdf: its argument
     i |-> 0,                \* generateMultiPagePdf: i
     buffers |-> <<>>]       \* generateMultiPagePdf: buffers

NoProbe == [call |-> 0, data |-> "", options |-> EmptyObj, raced |-> FALSE]

\* the probe after this.data (wroteData) or this.pdfOptions (wroteOptions) is
\* written by anyone but the observed call while that call is yet to read it
Overtaken(me, wroteData, wroteOptions) ==
    IF /\ probe.call # 0
       /\ probe.call # me
       /\ \/ wroteData /\ BeforeContentRead(calls[probe.call])
          \/ wroteOptions /\ BeforeOptionsRead(calls[probe.call])
    THEN [probe EXCEPT !.raced = TRUE]
    ELSE probe

\* generatePdf(props) up to its first await: puppeteer.launch is called
EnterGeneratePdf(c, props) ==
    [c EXCEPT !.pc = "launch", !.props = props]

\* the page and the locals of a call are gone when its browser is closed or
\* its function is left
Leave(c) ==
    [c EXCEPT !.props = EmptyObj, !.injected = EmptyObj, !.html = "",
              !.options = EmptyObj]

\* a generateMultiPagePdf that lets the error of generatePdf through as it is
ThrowUnwrapped(c, cause) ==
    [Leave(c) EXCEPT !.pc = "rejected", !.result = <<>>,
              !.error = GeneratePdfMessage(cause)]

\* the catch block of the call's function (and, for a generatePdf called by
\* generateMultiPagePdf, the catch block of generateMultiPagePdf after it)
Throw(c, cause) ==
    [Leave(c) EXCEPT !.pc = "rejected", !.result = <<>>,
              !.error = CASE c.op = "generatePdf" -> GeneratePdfMessage(cause)
                          [] c.op = "generatePdfStream" -> GeneratePdfMessage(cause)
                          [] c.op = "generateMultiPagePdf" ->
                                 MultiPageMessage(GeneratePdfMessage(cause))
                          [] OTHER -> cause]

----------------------------------------------------------------------------
(* generateMultiPagePdf: the loop *)

\* a loop that puts each rendered buffer at the front of the array
PushInFront(buffers, file) == <<file>> \o buffers

\* buffers.push(file)
Push(buffers, file) == Append(buffers, file)

\* a loop that spreads the page's props first: { ...page.props, pageNumber: i }
RenderPagePropsFirst(c, d) ==
    LET page == c.pageData[c.i]
        o == OrEmpty(page, "pdfOptions")
        props == Spread(OrEmpty(page, "props"), [pageNumber |-> c.i])
    IN  [call |-> EnterGeneratePdf(c, props), data |-> d, options |-> o,
         wrote |-> {"pdfOptions"}]

\* a loop whose setPdfOptions merges the page's options into the ones held
RenderPageMergingOptions(c, d) ==
    LET page == c.pageData[c.i]
        o == Spread(pdfOptions, OrEmpty(page, "pdfOptions"))
        props == Spread([pageNumber |-> c.i], OrEmpty(page, "props"))
    IN  [call |-> EnterGeneratePdf(c, props), data |-> d, options |-> o,
         wrote |-> {"pdfOptions"}]

\* this.setPdfOptions(page.pdfOptions || {}) and the call of
\* this.generatePdf({ pageNumber: i, ...page.props }), for the page at c.i with
\* this.data = d; this.pdfOptions is written
RenderPage(c, d) ==
    LET page == c.pageData[c.i]
        o == OrEmpty(page, "pdfOptions")
        props == Spread([pageNumber |-> c.i], OrEmpty(page, "props"))
    IN  [call |-> EnterGeneratePdf(c, props), data |-> d, options |-> o,
         wrote |-> {"pdfOptions"}]

\* a loop that never assigns the page's content to this.data
ContentIntakeSkipped(page, d) == d

\* the content branch of the intake: else if (page.content) this.data = ...
ContentIntake(page, d) ==
    IF Truthy(page, "content") THEN page.content ELSE d

\* the field that branch assigns, if it is taken
ContentWritten(page) == IF Truthy(page, "content") THEN {"data"} ELSE {}

\* the step r of the loop, in which these fields were assigned as well
AlsoWrote(r, fields) == [r EXCEPT !.wrote = @ \cup fields]

\* a generateMultiPagePdf that returns whatever the merge left, thrown or not
MergeAndReturnAnyway(c) ==
    LET m == MergePDFs(c.buffers)
    IN  [c EXCEPT !.pc = "resolved", !.result = m.out, !.buffers = m.list]

\* const totalBuffer = this.mergePDFs(buffers); return totalBuffer; and the
\* catch block when it throws
MergeAndReturn(c) ==
    LET m == MergePDFs(c.buffers)
    IN  IF m.threw
        THEN [c EXCEPT !.pc = "rejected", !.error = MultiPageMessage(m.error),
                       !.buffers = m.list]
        ELSE [c EXCEPT !.pc = "resolved", !.result = m.out, !.buffers = m.list]

\* a loop that takes the page's content when it has one and reads the
\* template only when it has not
LoopContentFirst(c, d, o) ==
    IF c.i = Len(c.pageData)
    THEN [call |-> MergeAndReturn(c), data |-> d, options |-> o, wrote |-> {}]
    ELSE LET c1 == [c EXCEPT !.i = c.i + 1]
             page == c.pageData[c1.i]
         IN  IF Truthy(page, "content")
             THEN AlsoWrote(RenderPage(c1, page.content), {"data"})
             ELSE IF Truthy(page, "templatePath")
             THEN [call |-> [c1 EXCEPT !.pc = "readFile",
                                       !.filePath = page.templatePath],
                   data |-> d, options |-> o, wrote |-> {}]
             ELSE RenderPage(c1, d)

\* the for loop from its head to the next await: the next page's intake and
\* the call of generatePdf, or the merge after the last page
Loop(c, d, o) ==
    IF c.i = Len(c.pageData)
    THEN [call |-> MergeAndReturn(c), data |-> d, options |-> o, wrote |-> {}]
    ELSE LET c1 == [c EXCEPT !.i = c.i + 1]
             page == c.pageData[c1.i]
         IN  IF Truthy(page, "templatePath")
             THEN [call |-> [c1 EXCEPT !.pc = "readFile",
                                       !.filePath = page.templatePath],
                   data |-> d, options |-> o, wrote |-> {}]
             ELSE AlsoWrote(RenderPage(c1, ContentIntake(page, d)),
                            ContentWritten(page))

\* the fields and the calls after call k ran the step r of the loop; a write
\* counts for the probe whatever value it wrote
Continue(k, r) ==
    /\ data' = r.data
    /\ pdfOptions' = r.options
    /\ calls' = [calls EXCEPT ![k] = r.call]
    /\ probe' = Overtaken(k, "data" \in r.wrote, "pdfOptions" \in r.wrote)

----------------------------------------------------------------------------
(* fromFile *)

\* a fromFile that swallows the read error
FromFileSwallowing(filePath, d) ==
    IF Readable(filePath)
    THEN [threw |-> FALSE, data |-> FileText(filePath), error |-> <<>>]
    ELSE [threw |-> FALSE, data |-> d, error |-> <<>>]

\* a fromFile that clears the content when the read fails
FromFileClearing(filePath, d) ==
    IF Readable(filePath)
    THEN [threw |-> FALSE, data |-> FileText(filePath), error |-> <<>>]
    ELSE [threw |-> TRUE, data |-> "",
          error |-> FromFileMessage(filePath, ReadError(filePath))]

\* fromFile(filePath) after readFile settled, with this.data = d before
FromFileOutcome(filePath, d) ==
    IF Readable(filePath)
    THEN [threw |-> FALSE, data |-> FileText(filePath), error |-> <<>>]
    ELSE [threw |-> TRUE, data |-> d,
          error |-> FromFileMessage(filePath, ReadError(filePath))]

----------------------------------------------------------------------------
(* Inputs *)

\* generatePdf() or generatePdf(props)
PropArgs == {<<>>, <<[title |-> "t"]>>}

\* props: T = { pageNumber: 1 }
PropsOrDefault(args) == IF args = <<>> THEN [pageNumber |-> 1] ELSE args[1]

\* the page specifications generateMultiPagePdf is given
PageSpecs ==
    { [content |-> "A"],
      [content |-> "B", props |-> [title |-> "t"]],
      [content |-> "", pdfOptions |-> [format |-> "Letter"]],
      [content |-> "A", templatePath |-> IndexHtml],
      [content |-> "A", templatePath |-> MissingPath],
      [content |-> "B", props |-> [pageNumber |-> 7],
       pdfOptions |-> [format |-> "Letter"]],
      [props |-> [title |-> "t"]] }

PageLists == UNION { [1..n -> PageSpecs] : n \in 0..MaxPages }

\* already rendered PDF documents
Docs == { Render("A", DefaultOptions, [pageNumber |-> 1]),
          Render("B", DefaultOptions, [pageNumber |-> 1]),
          Render("", EmptyObj, [pageNumber |-> 2]) }

BufferLists == UNION { [1..n -> Docs] : n \in 0..MaxBuffers }


----------------------------------------------------------------------------
\* new PDFGenerator(): format = "A4"
Init ==
    /\ data = ""
    /\ pdfOptions = DefaultOptions
    /\ tempDir = FALSE
    /\ files = {}
    /\ browsers = {}
    /\ calls = <<>>
    /\ list = <<>>
    /\ merged = [state |-> "none", input |-> <<>>, out |-> <<>>, error |-> <<>>]
    /\ probe = NoProbe

----------------------------------------------------------------------------
(* The synchronous methods *)

\* setPdfOptions(pdfOptions)
SetPdfOptions(o) ==
    /\ pdfOptions' = o
    /\ probe' = Overtaken(0, FALSE, TRUE)
    /\ UNCHANGED <<data, tempDir, files, browsers, calls, list, merged>>

\* fromContent(data)
FromContent(d) ==
    /\ data' = d
    /\ probe' = Overtaken(0, TRUE, FALSE)
    /\ UNCHANGED <<pdfOptions, tempDir, files, browsers, calls, list, merged>>

\* a caller builds an array of buffers
BuildList(bufs) ==
    /\ list' = bufs
    /\ merged' = [state |-> "none", input |-> <<>>, out |-> <<>>, error |-> <<>>]
    /\ UNCHANGED <<data, pdfOptions, tempDir, files, browsers, calls, probe>>

\* mergePDFs(list)
MergeList ==
    /\ LET m == MergePDFs(list)
       IN  /\ list' = m.list
           /\ merged' = [state |-> IF m.threw THEN "threw" ELSE "returned",
                         input |-> list, out |-> m.out, error |-> m.error]
    /\ UNCHANGED <<data, pdfOptions, tempDir, files, browsers, calls, probe>>

----------------------------------------------------------------------------
(* The asynchronous methods: invocation *)

\* fromFile(filePath) up to its await: readFile is called
FromFile(p) ==
    /\ Len(calls) < MaxCalls
    /\ calls' = Append(calls, [NewCall("fromFile") EXCEPT
                                   !.pc = "readFile", !.filePath = p])
    /\ UNCHANGED <<data, pdfOptions, tempDir, files, browsers, list, merged, probe>>

\* generatePdf(props) up to its first await; the probe may observe the call
GeneratePdf(args, observed) ==
    /\ Len(calls) < MaxCalls
    /\ observed => probe.call = 0
    /\ calls' = Append(calls, EnterGeneratePdf(NewCall("generatePdf"),
                                               PropsOrDefault(args)))
    /\ probe' = IF observed
                THEN [call |-> Len(calls) + 1, data |-> data,
                      options |-> pdfOptions, raced |-> FALSE]
                ELSE probe
    /\ UNCHANGED <<data, pdfOptions, tempDir, files, browsers, list, merged>>

\* generatePdfStream(props) up to its first await: the temp folder is made
GeneratePdfStream(args) ==
    /\ Len(calls) < MaxCalls
    /\ tempDir' = TRUE
    /\ calls' = Append(calls, EnterGeneratePdf(NewCall("generatePdfStream"),
                                               PropsOrDefault(args)))
    /\ UNCHANGED <<data, pdfOptions, files, browsers, list, merged, probe>>

\* generateMultiPagePdf(pageData) up to its first await
GenerateMultiPagePdf(pages) ==
    /\ Len(calls) < MaxCalls
    /\ LET k == Len(calls) + 1
           c == [NewCall("generateMultiPagePdf") EXCEPT !.pageData = pages]
           r == Loop(c, data, pdfOptions)
       IN  /\ data' = r.data
           /\ pdfOptions' = r.options
           /\ calls' = Append(calls, r.call)
           /\ probe' = Overtaken(k, "data" \in r.wrote, "pdfOptions" \in r.wrote)
    /\ UNCHANGED <<tempDir, files, browsers, list, merged>>

----------------------------------------------------------------------------
(* The asynchronous methods: the code after each await *)

\* readFile settles: the rest of fromFile, and of the loop that called it
ReadFile(k) ==
    /\ calls[k].pc = "readFile"
    /\ LET c == calls[k]
           f == FromFileOutcome(c.filePath, data)
       IN  IF f.threw
           THEN /\ data' = f.data
                /\ pdfOptions' = pdfOptions
                /\ probe' = probe
                /\ calls' = [calls EXCEPT ![k].pc = "rejected",
                                ![k].error = IF c.op = "fromFile" THEN f.error
                                             ELSE MultiPageMessage(f.error)]
           ELSE IF c.op = "fromFile"
                THEN /\ data' = f.data
                     /\ pdfOptions' = pdfOptions
                     /\ probe' = Overtaken(k, TRUE, FALSE)
                     /\ calls' = [calls EXCEPT ![k].pc = "resolved"]
                ELSE Continue(k, AlsoWrote(RenderPage(c, f.data), {"data"}))
    /\ UNCHANGED <<tempDir, files, browsers, list, merged>>

\* puppeteer.launch resolves; browser.newPage is called
Launch(k) ==
    /\ calls[k].pc = "launch"
    /\ browsers' = browsers \cup {<<k, calls[k].launches + 1>>}
    /\ calls' = [calls EXCEPT ![k].pc = "newPage",
                              ![k].launches = calls[k].launches + 1]
    /\ UNCHANGED <<data, pdfOptions, tempDir, files, list, merged, probe>>

\* browser.newPage resolves; page.evaluate is called with props
NewPage(k) ==
    /\ calls[k].pc = "newPage"
    /\ calls' = [calls EXCEPT ![k].pc = "evaluate"]
    /\ UNCHANGED <<data, pdfOptions, tempDir, files, browsers, list, merged, probe>>

\* a generator that loads no content
ContentNotLoaded(k) == ""

\* what page.setContent is given: this.data as it is when the call is made
ContentToLoad(k) == data

\* what generatePdf gives page.pdf: this.pdfOptions as it is then
OptionsToUse(k) == pdfOptions

\* page.evaluate resolves: window.PDFGeneratorData = props || {};
\* page.setContent is called with this.data
Evaluate(k) ==
    /\ calls[k].pc = "evaluate"
    /\ calls' = [calls EXCEPT ![k].pc = "setContent",
                              ![k].injected = calls[k].props,
                              ![k].html = ContentToLoad(k)]
    /\ UNCHANGED <<data, pdfOptions, tempDir, files, browsers, list, merged, probe>>

\* generatePdf: page.setContent resolves; page.pdf is called with
\* this.pdfOptions
SetContent(k) ==
    /\ calls[k].pc = "setContent"
    /\ calls[k].op # "generatePdfStream"
    /\ calls' = [calls EXCEPT ![k].pc = "pdf", ![k].options = OptionsToUse(k)]
    /\ UNCHANGED <<data, pdfOptions, tempDir, files, browsers, list, merged, probe>>

\* the options generatePdfStream gives page.pdf:
\* { path: tempPdfPath, ...this.pdfOptions }
StreamOptions(tempPdfPath, o) == Spread([path |-> tempPdfPath], o)

\* generatePdfStream: page.setContent resolves; the file name is drawn and
\* page.pdf is called
SetContentStream(k, name) ==
    /\ calls[k].pc = "setContent"
    /\ calls[k].op = "generatePdfStream"
    /\ calls' = [calls EXCEPT ![k].pc = "pdf", ![k].tmp = name,
                              ![k].options = StreamOptions(name, pdfOptions)]
    /\ UNCHANGED <<data, pdfOptions, tempDir, files, browsers, list, merged, probe>>

\* the file page.pdf writes, if any
Written(options) ==
    IF "path" \in DOMAIN options THEN {options.path} ELSE {}

\* while the call awaits page.pdf, the engine writes the file at the path
\* the options give
WritePdf(k) ==
    /\ calls[k].pc = "pdf"
    /\ ValidOptions(calls[k].options)
    /\ Written(calls[k].options) # {}
    /\ files' = files \cup Written(calls[k].options)
    /\ calls' = [calls EXCEPT ![k].pc = "written"]
    /\ UNCHANGED <<data, pdfOptions, tempDir, browsers, list, merged, probe>>

\* page.pdf settles, the file, if it had one to write, written before.
\* generatePdf: browser.close is called.  generatePdfStream: the read stream
\* is created and returned.
Pdf(k) ==
    /\ \/ calls[k].pc = "written"
       \/ /\ calls[k].pc = "pdf"
          /\ ValidOptions(calls[k].options) => Written(calls[k].options) = {}
    /\ LET c == calls[k]
       IN  IF ValidOptions(c.options)
           THEN /\ files' = files
                /\ calls' =
                     IF c.op = "generatePdfStream"
                     THEN [calls EXCEPT ![k].pc = "streaming"]
                     ELSE [calls EXCEPT ![k].pc = "close",
                              ![k].result = Render(c.html, c.options, c.injected)]
           ELSE /\ files' = files
                /\ calls' = [calls EXCEPT ![k] = Throw(c, FormatError(c.options))]
    /\ UNCHANGED <<data, pdfOptions, tempDir, browsers, list, merged, probe>>

\* a browser.close() that leaves the browser open
AfterCloseStillOpen(k) == browsers

\* the browsers open after the call's browser.close()
AfterClose(k) == browsers \ {<<k, calls[k].launches>>}

\* browser.close resolves: generatePdf returns pdfBuffer; in
\* generateMultiPagePdf the buffer is pushed and the loop goes on
Close(k) ==
    /\ calls[k].pc = "close"
    /\ browsers' = AfterClose(k)
    /\ LET c == Leave(calls[k])
       IN  IF c.op = "generatePdf"
           THEN /\ calls' = [calls EXCEPT ![k] = [c EXCEPT !.pc = "resolved"]]
                /\ UNCHANGED <<data, pdfOptions, probe>>
           ELSE Continue(k, Loop([c EXCEPT !.buffers = Push(c.buffers, c.result),
                                           !.result = <<>>],
                                 data, pdfOptions))
    /\ UNCHANGED <<tempDir, files, list, merged>>

\* the await the call is suspended on: page.pdf also after its file is
\* written
EngineStep(c) == IF c.pc = "written" THEN "pdf" ELSE c.pc

\* the engine rejects the step the call is suspended on, browser.close()
\* included: the catch block; a buffer page.pdf gave is dropped
EngineFails(k) ==
    /\ EngineStep(calls[k]) \in EnginePcs
    /\ calls' = [calls EXCEPT ![k] =
                    Throw(calls[k], EngineError(EngineStep(calls[k])))]
    /\ UNCHANGED <<data, pdfOptions, tempDir, files, browsers, list, merged, probe>>

\* the stream emits close: the handler calls fs.promises.unlink(tempPdfPath)
StreamClose(k) ==
    /\ calls[k].pc = "streaming"
    /\ calls' = [calls EXCEPT ![k].pc = "unlinking"]
    /\ UNCHANGED <<data, pdfOptions, tempDir, files, browsers, list, merged, probe>>

\* unlink settles
Unlink(k) ==
    /\ calls[k].pc = "unlinking"
    /\ files' = files \ {calls[k].tmp}
    /\ calls' = [calls EXCEPT ![k].pc = "unlinked"]
    /\ UNCHANGED <<data, pdfOptions, tempDir, browsers, list, merged, probe>>

----------------------------------------------------------------------------
(* Specifications *)

\* callers that use one instance without waiting for each other: intake,
\* options, generatePdf
Next ==
    \/ \E o \in OptionChoices : SetPdfOptions(o)
    \/ \E d \in Contents : FromContent(d)
    \/ \E p \in Paths : FromFile(p)
    \/ \E a \in PropArgs : GeneratePdf(a, FALSE)
    \/ \E k \in DOMAIN calls : ReadFile(k)
    \/ \E k \in DOMAIN calls : Launch(k)
    \/ \E k \in DOMAIN calls : NewPage(k)
    \/ \E k \in DOMAIN calls : Evaluate(k)
    \/ \E k \in DOMAIN calls : SetContent(k)
    \/ \E k \in DOMAIN calls : Pdf(k)
    \/ \E k \in DOMAIN calls : Close(k)
    \/ \E k \in DOMAIN calls : EngineFails(k)

Spec == Init /\ [][Next]_vars

\* a fresh instance on which fromFile and generatePdf are called, awaited or
\* not
NextFile ==
    \/ \E p \in Paths : FromFile(p)
    \/ \E a \in PropArgs : GeneratePdf(a, FALSE)
    \/ \E k \in DOMAIN calls : ReadFile(k)
    \/ \E k \in DOMAIN calls : Launch(k)
    \/ \E k \in DOMAIN calls : NewPage(k)
    \/ \E k \in DOMAIN calls : Evaluate(k)
    \/ \E k \in DOMAIN calls : SetContent(k)
    \/ \E k \in DOMAIN calls : Pdf(k)
    \/ \E k \in DOMAIN calls : Close(k)
    \/ \E k \in DOMAIN calls : EngineFails(k)

SpecFile == Init /\ [][NextFile]_vars

\* an instance whose content a caller has set, on which fromFile and
\* generatePdf are then called, awaited or not
NextIntake ==
    \/ calls = <<>> /\ \E d \in Contents : FromContent(d)
    \/ \E p \in Paths : FromFile(p)
    \/ \E a \in PropArgs : GeneratePdf(a, FALSE)
    \/ \E k \in DOMAIN calls : ReadFile(k)
    \/ \E k \in DOMAIN calls : Launch(k)
    \/ \E k \in DOMAIN calls : NewPage(k)
    \/ \E k \in DOMAIN calls : Evaluate(k)
    \/ \E k \in DOMAIN calls : SetContent(k)
    \/ \E k \in DOMAIN calls : Pdf(k)
    \/ \E k \in DOMAIN calls : Close(k)
    \/ \E k \in DOMAIN calls : EngineFails(k)

SpecIntake == Init /\ [][NextIntake]_vars

\* one generatePdf call, observed from its invocation, and the callers that
\* meanwhile set content and options on the same instance
NextRace ==
    \/ \E o \in OptionChoices : SetPdfOptions(o)
    \/ \E d \in Contents : FromContent(d)
    \/ \E p \in Paths : FromFile(p)
    \/ \E a \in PropArgs : GeneratePdf(a, TRUE)
    \/ \E k \in DOMAIN calls : ReadFile(k)
    \/ \E k \in DOMAIN calls : Launch(k)
    \/ \E k \in DOMAIN calls : NewPage(k)
    \/ \E k \in DOMAIN calls : Evaluate(k)
    \/ \E k \in DOMAIN calls : SetContent(k)
    \/ \E k \in DOMAIN calls : Pdf(k)
    \/ \E k \in DOMAIN calls : Close(k)
    \/ \E k \in DOMAIN calls : EngineFails(k)

SpecRace == Init /\ [][NextRace]_vars

\* callers of generatePdfStream and the consumers of the streams
NextStream ==
    \/ \E o \in StreamOptionChoices : SetPdfOptions(o)
    \/ \E a \in PropArgs : GeneratePdfStream(a)
    \/ \E k \in DOMAIN calls : Launch(k)
    \/ \E k \in DOMAIN calls : NewPage(k)
    \/ \E k \in DOMAIN calls : Evaluate(k)
    \/ \E k \in DOMAIN calls, name \in TempNames : SetContentStream(k, name)
    \/ \E k \in DOMAIN calls : WritePdf(k)
    \/ \E k \in DOMAIN calls : Pdf(k)
    \/ \E k \in DOMAIN calls : EngineFails(k)
    \/ \E k \in DOMAIN calls : StreamClose(k)
    \/ \E k \in DOMAIN calls : Unlink(k)

SpecStream == Init /\ [][NextStream]_vars

\* a stream that is closed has its unlink run; a call in flight may hang
FairStream ==
    SpecStream /\ \A k \in 1..MaxCalls : WF_vars(k \in DOMAIN calls /\ Unlink(k))

\* no call is in flight
Quiet == \A k \in DOMAIN calls : Settled(calls[k])

\* one caller, who sets the instance up, calls generateMultiPagePdf and waits
\* for it
NextMulti ==
    \/ Quiet /\ \E o \in OptionChoices : SetPdfOptions(o)
    \/ Quiet /\ \E d \in Contents : FromContent(d)
    \/ calls = <<>> /\ \E pages \in PageLists : GenerateMultiPagePdf(pages)
    \/ \E k \in DOMAIN calls : ReadFile(k)
    \/ \E k \in DOMAIN calls : Launch(k)
    \/ \E k \in DOMAIN calls : NewPage(k)
    \/ \E k \in DOMAIN calls : Evaluate(k)
    \/ \E k \in DOMAIN calls : SetContent(k)
    \/ \E k \in DOMAIN calls : Pdf(k)
    \/ \E k \in DOMAIN calls : Close(k)
    \/ \E k \in DOMAIN calls : EngineFails(k)

SpecMulti == Init /\ [][NextMulti]_vars

\* a caller of mergePDFs
NextMerge ==
    \/ \E bufs \in BufferLists : BuildList(bufs)
    \/ MergeList

SpecMerge == Init /\ [][NextMerge]_vars

\* a caller who either merges arrays of its own or calls
\* generateMultiPagePdf, which merges the array it builds
NextArrays ==
    \/ calls = <<>> /\ \E bufs \in BufferLists : BuildList(bufs)
    \/ calls = <<>> /\ MergeList
    \/ /\ calls = <<>> /\ list = <<>> /\ merged.state = "none"
       /\ \E pages \in PageLists : GenerateMultiPagePdf(pages)
    \/ \E k \in DOMAIN calls : ReadFile(k)
    \/ \E k \in DOMAIN calls : Launch(k)
    \/ \E k \in DOMAIN calls : NewPage(k)
    \/ \E k \in DOMAIN calls : Evaluate(k)
    \/ \E k \in DOMAIN calls : SetContent(k)
    \/ \E k \in DOMAIN calls : Pdf(k)
    \/ \E k \in DOMAIN calls : Close(k)
    \/ \E k \in DOMAIN calls : EngineFails(k)

SpecArrays == Init /\ [][NextArrays]_vars

\* one caller, who sets a content, calls generateMultiPagePdf, waits for it
\* and then calls generatePdf()
NextAfter ==
    \/ calls = <<>> /\ \E d \in Contents : FromContent(d)
    \/ calls = <<>> /\ \E pages \in PageLists : GenerateMultiPagePdf(pages)
    \/ Len(calls) = 1 /\ Quiet /\ GeneratePdf(<<>>, FALSE)
    \/ \E k \in DOMAIN calls : ReadFile(k)
    \/ \E k \in DOMAIN calls : Launch(k)
    \/ \E k \in DOMAIN calls : NewPage(k)
    \/ \E k \in DOMAIN calls : Evaluate(k)
    \/ \E k \in DOMAIN calls : SetContent(k)
    \/ \E k \in DOMAIN calls : Pdf(k)
    \/ \E k \in DOMAIN calls : Close(k)
    \/ \E k \in DOMAIN calls : EngineFails(k)

SpecAfter == Init /\ [][NextAfter]_vars

----------------------------------------------------------------------------
(* Sessions *)

\* the browsers call k launched that are still open
OpenOf(k) == {s \in browsers : s[1] = k}

\* C1: a generatePdf call that has settled, with a buffer or with an error,
\* has left none of the browsers it launched open.
C1_GeneratePdfReleasesSession ==
    \A k \in DOMAIN calls :
        calls[k].op = "generatePdf" /\ Settled(calls[k]) => OpenOf(k) = {}

\* C2: a generatePdfStream call that has returned its stream, or rejected, has
\* left none of the browsers it launched open.
C2_StreamReleasesSession ==
    \A k \in DOMAIN calls :
        calls[k].op = "generatePdfStream" /\ Settled(calls[k]) => OpenOf(k) = {}

----------------------------------------------------------------------------
(* Streams *)

\* C3: from the return of a stream to its close event, the temp file the
\* stream reads exists.
C3_TempFileExistsUntilClose ==
    \A k \in DOMAIN calls :
        calls[k].pc = "streaming" => calls[k].tmp \in files

\* the liveness half of the same sentence: a closed stream's temp file is
\* gone sooner or later
TempFileDeletedAfterClose ==
    \A k \in 1..MaxCalls :
        (k \in DOMAIN calls /\ calls[k].pc = "unlinking")
            ~> (k \in DOMAIN calls /\ calls[k].tmp \notin files)

----------------------------------------------------------------------------
(* The race on this.data and this.pdfOptions *)

\* the content and the options of the observed call's render, once read
LoadedContent(c) == IF c.pc = "resolved" THEN c.result[1].html ELSE c.html
UsedOptions(c) == IF c.pc = "resolved" THEN c.result[1].options ELSE c.options

\* C4: a generatePdf call renders the content and the options the instance
\* holds when it reaches its load and pdf steps: they differ from what the
\* instance held when the call was invoked only if this.data or this.pdfOptions
\* was written in between, and then they do.
C4_RenderDiffersOnlyAfterRace ==
    probe.call # 0 =>
        LET c == calls[probe.call]
        IN  /\ c.pc \in {"setContent", "pdf", "close", "resolved"}
                  /\ LoadedContent(c) # probe.data => probe.raced
            /\ c.pc \in {"pdf", "close", "resolved"}
                  /\ UsedOptions(c) # probe.options => probe.raced

\* a generatePdf call invoked while this.data was "A" has returned a render of
\* "B"
C4_WrongContentRendered ==
    /\ probe.call # 0
    /\ probe.data = "A"
    /\ calls[probe.call].pc = "resolved"
    /\ calls[probe.call].result[1].html = "B"
    /\ probe.raced

----------------------------------------------------------------------------
(* File intake *)

\* the test's usage: fromFile(p) is called and, without waiting for it,
\* generatePdf(); no other asynchronous call is made
TestUsage ==
    /\ Len(calls) = 2
    /\ calls[1].op = "fromFile"
    /\ calls[2].op = "generatePdf"

\* C5: in the test's usage with a readable file, the buffer generatePdf
\* returns is the render of the file's contents, as after fromContent of them.
C5_FileContentRendered ==
    TestUsage /\ Readable(calls[1].filePath) /\ calls[2].pc = "resolved" =>
        calls[2].result = Render(FileText(calls[1].filePath), pdfOptions,
                                 calls[2].result[1].injected)

\* C6 as claimed: after fromFile(p) of a missing p, the generatePdf() called
\* next rejects with a message that contains p (or, the engine failing, with
\* the engine's).
C6_GeneratePdfRejectsWithPath ==
    TestUsage /\ ~Readable(calls[1].filePath) /\ Settled(calls[2]) =>
        /\ Rejected(calls[2])
        /\ \/ Contains(calls[2].error, calls[1].filePath)
           \/ \E step \in EnginePcs : Contains(calls[2].error, step)

\* fromFile of a missing path is the first call on the instance and every
\* call after it is a generatePdf
OnlyFailedRead(cs) ==
    /\ cs # <<>>
    /\ cs[1].op = "fromFile"
    /\ ~Readable(cs[1].filePath)
    /\ \A j \in 2..Len(cs) : cs[j].op = "generatePdf"

\* C6 as amended: it is fromFile(p) that rejects with a message containing p;
\* from its call on this.data stays what it was; and the generatePdf() called
\* next is not made to fail by it: it rejects only with the error of an
\* engine step that rejected, and otherwise returns the render of that
\* unchanged content.
C6_FromFileRejectsWithPath ==
    [][/\ \A k \in DOMAIN calls' :
              LET c == calls'[k]
              IN  c.op = "fromFile" /\ ~Readable(c.filePath) /\ Settled(c) =>
                      Rejected(c) /\ Contains(c.error, c.filePath)
       /\ OnlyFailedRead(calls') => data' = data
       /\ TestUsage' /\ ~Readable(calls'[1].filePath) =>
              LET c == calls'[2]
              IN  /\ c.pc = "resolved" => c.result[1].html = data'
                  /\ Rejected(c) =>
                         \E step \in EnginePcs :
                             c.error = GeneratePdfMessage(EngineError(step))]_vars

\* on an instance holding the content "A", fromFile of the missing path has
\* rejected and the generatePdf() called after it has returned the render of
\* "A"
C6_GeneratePdfResolved ==
    /\ TestUsage
    /\ calls[1].filePath = MissingPath
    /\ Rejected(calls[1])
    /\ Contains(calls[1].error, MissingPath)
    /\ calls[2].pc = "resolved"
    /\ calls[2].result[1].html = "A"
    /\ data = "A"

\* C7: the step in which fromFile rejects leaves this.data, this.pdfOptions
\* and everything else but the call itself as they were, and the message of
\* its error contains the path.
C7_FailedReadHasNoEffect ==
    [][\A k \in DOMAIN calls :
          calls[k].op = "fromFile" /\ calls[k].pc = "readFile"
              /\ calls'[k].pc = "rejected" =>
                 /\ data' = data
                 /\ pdfOptions' = pdfOptions
                 /\ UNCHANGED <<tempDir, files, browsers>>
                 /\ Contains(calls'[k].error, calls[k].filePath)]_vars

\* fromFile of the missing path has rejected on an instance whose content and
\* options a caller had set
C7_RejectedWithContentSet ==
    \E k \in DOMAIN calls :
        /\ calls[k].op = "fromFile"
        /\ Rejected(calls[k])
        /\ Contains(calls[k].error, MissingPath)
        /\ data = "A"
        /\ pdfOptions = EmptyObj

----------------------------------------------------------------------------
(* generateMultiPagePdf *)

\* every document this.data can hold
AllContents == Contents \cup {"", FileText(IndexHtml)}

\* h gives each page specification the content its render is to have: the
\* file's, else the specification's own, else the one left by the
\* specification before it
ContentsFollow(pages, h) ==
    \A j \in 1..Len(pages) :
        LET page == pages[j]
        IN  IF Truthy(page, "templatePath") THEN h[j] = FileText(page.templatePath)
            ELSE IF Truthy(page, "content") THEN h[j] = page.content
            ELSE j > 1 => h[j] = h[j - 1]

\* the buffer the j-th specification is to give
BufferOf(pages, h, j) ==
    Render(h[j], OrEmpty(pages[j], "pdfOptions"),
           Spread([pageNumber |-> j], OrEmpty(pages[j], "props")))

RECURSIVE DocumentFrom(_, _, _)
\* the pages of specification j, then those of j + 1, and so on
DocumentFrom(pages, h, j) ==
    IF j > Len(pages) THEN <<>>
    ELSE BufferOf(pages, h, j) \o DocumentFrom(pages, h, j + 1)

\* C8: a generateMultiPagePdf call that returns has launched one render per
\* page specification, and the document it returns is the pages of the first
\* specification's render, then those of the second's, and so on.
C8_PagesInSpecOrder ==
    \A k \in DOMAIN calls :
        calls[k].op = "generateMultiPagePdf" /\ calls[k].pc = "resolved" =>
            LET pages == calls[k].pageData
            IN  /\ pages # <<>>
                /\ calls[k].launches = Len(pages)
                /\ \E h \in [1..Len(pages) -> AllContents] :
                       /\ ContentsFollow(pages, h)
                       /\ calls[k].result = DocumentFrom(pages, h, 1)

\* a call given a two-page document and then a one-page document has
\* returned three pages, the two of the first specification first
C8_TwoSpecsRendered ==
    \E k \in DOMAIN calls :
        /\ calls[k].op = "generateMultiPagePdf"
        /\ calls[k].pc = "resolved"
        /\ Len(calls[k].pageData) = 2
        /\ Len(calls[k].result) = 3
        /\ calls[k].result[1].html = "B" /\ calls[k].result[1].no = 1
        /\ calls[k].result[2].html = "B" /\ calls[k].result[2].no = 2
        /\ calls[k].result[3].html = "A"

\* the page specification a generateMultiPagePdf call is rendering
Rendering(c) ==
    c.op = "generateMultiPagePdf" /\ c.pc \in {"setContent", "pdf", "close"}

\* C9: window.PDFGeneratorData during the render of the specification at
\* position i holds the specification's props, and pageNumber: its own when
\* the props have that key, i when they have not.
C9_PageNumberInjected ==
    \A k \in DOMAIN calls :
        Rendering(calls[k]) =>
            LET c == calls[k]
                props == OrEmpty(c.pageData[c.i], "props")
            IN  /\ DOMAIN c.injected = {"pageNumber"} \cup DOMAIN props
                /\ \A key \in DOMAIN props : c.injected[key] = props[key]
                /\ "pageNumber" \notin DOMAIN props => c.injected.pageNumber = c.i
                /\ "pageNumber" \in DOMAIN props =>
                       c.injected.pageNumber = props.pageNumber

\* the second specification, whose props have another key only, is rendered
\* with pageNumber 2 after the first, whose props set pageNumber to 7, was
\* rendered with 7
C9_SecondPageNumbered ==
    \E k \in DOMAIN calls :
        /\ Rendering(calls[k])
        /\ calls[k].i = 2
        /\ OrEmpty(calls[k].pageData[2], "props") = [title |-> "t"]
        /\ calls[k].injected = [pageNumber |-> 2, title |-> "t"]
        /\ OrEmpty(calls[k].pageData[1], "props") = [pageNumber |-> 7]
        /\ calls[k].buffers[1][1].injected.pageNumber = 7

----------------------------------------------------------------------------
(* mergePDFs *)

RECURSIVE PagesBefore(_, _)
\* the pages of the buffers before the j-th
PagesBefore(buffers, j) ==
    IF j = 1 THEN 0 ELSE PagesBefore(buffers, j - 1) + Len(buffers[j - 1])

\* C10: the document mergePDFs returns has as many pages as its buffers have
\* together, and the n-th page of the j-th buffer is its page number
\* (pages of the buffers before) + n; for one buffer it is that buffer.
C10_MergeConcatenates ==
    merged.state = "returned" =>
        LET buffers == merged.input
            last == Len(buffers)
        IN  /\ last >= 1
            /\ Len(merged.out) = PagesBefore(buffers, last) + Len(buffers[last])
            /\ \A j \in 1..last : \A n \in 1..Len(buffers[j]) :
                   merged.out[PagesBefore(buffers, j) + n] = buffers[j][n]
            /\ last = 1 => merged.out = buffers[1]

\* three buffers of one, two and one pages have been merged into four pages
C10_ThreeMerged ==
    /\ merged.state = "returned"
    /\ Len(merged.input) = 3
    /\ Len(merged.input[1]) = 1
    /\ Len(merged.input[2]) = 2
    /\ merged.input[3] # merged.input[1]
    /\ Len(merged.out) = 4

\* C11: mergePDFs called with an empty array throws: it returns no buffer,
\* empty or other, and its error has a message.
C11_EmptyMergeThrows ==
    merged.state # "none" /\ merged.input = <<>> =>
        /\ merged.state = "threw"
        /\ merged.out = <<>>
        /\ merged.error # <<>>

\* mergePDFs has been called with an empty array and has thrown
C11_EmptyMergeCalled ==
    /\ merged.state = "threw"
    /\ merged.input = <<>>
    /\ merged.error = NoBufferError

----------------------------------------------------------------------------
(* generateMultiPagePdf: failures *)

\* the error message of a generateMultiPagePdf call wraps the failure of the
\* intake or of the render of the page specification
WrapsFailureOf(error, page) ==
    /\ error # <<>>
    /\ Head(error) = "Generate Multi Page PDF Error: "
    /\ \/ /\ Truthy(page, "templatePath")
          /\ ~Readable(page.templatePath)
          /\ Tail(error) = FromFileMessage(page.templatePath,
                                           ReadError(page.templatePath))
       \/ /\ Len(error) >= 3
          /\ error[2] = "Generate PDF Error: "
          /\ \/ \E step \in EnginePcs : Tail(Tail(error)) = EngineError(step)
             \/ Tail(Tail(error)) = FormatError(OrEmpty(page, "pdfOptions"))

\* C12: a step in which a generateMultiPagePdf call rejects at the page
\* specification at position i leaves the call with the buffers of the i - 1
\* specifications before it, unmerged, no browser launched for a later
\* specification, no buffer returned, and the multi-page error that wraps the
\* failure of specification i; and a call that has rejected takes no further
\* step.
C12_FailureAborts ==
    [][\A k \in DOMAIN calls' :
          LET c == calls'[k]
          IN  c.op = "generateMultiPagePdf" /\ Rejected(c) /\ c.i >= 1 =>
                  /\ c.i <= Len(c.pageData)
                  /\ Len(c.buffers) = c.i - 1
                  /\ c.launches \in {c.i - 1, c.i}
                  /\ c.result = <<>>
                  /\ WrapsFailureOf(c.error, c.pageData[c.i])
                  /\ k \in DOMAIN calls /\ Rejected(calls[k]) => c = calls[k]]_vars

\* the render of the second of three page specifications has failed: the
\* call has rejected holding the first buffer, and the third was not begun
C12_SecondOfThreeFailed ==
    \E k \in DOMAIN calls :
        /\ calls[k].op = "generateMultiPagePdf"
        /\ Rejected(calls[k])
        /\ Len(calls[k].pageData) = 3
        /\ calls[k].i = 2
        /\ Len(calls[k].buffers) = 1
        /\ calls[k].launches = 2
        /\ Contains(calls[k].error, "Generate PDF Error: ")

----------------------------------------------------------------------------
(* generateMultiPagePdf: what each page is rendered from *)

\* C13: the render of a page specification that has no templatePath and has
\* a content, the empty string included, loads exactly that content.
C13_GivenContentRendered ==
    \A k \in DOMAIN calls :
        Rendering(calls[k]) =>
            LET page == calls[k].pageData[calls[k].i]
            IN  "templatePath" \notin DOMAIN page /\ "content" \in DOMAIN page =>
                    calls[k].html = page.content

\* a page specification that gives a template path and a content
GivesBoth(page) == Truthy(page, "templatePath") /\ "content" \in DOMAIN page

\* C14: a page specification that gives both a templatePath and a content is
\* rendered from the file: its render loads the file's text, and so did the
\* renders of the specifications before it that gave both; when the file
\* cannot be read the call rejects at that specification with the read error,
\* without a render of it.
C14_TemplatePathWins ==
    \A k \in DOMAIN calls :
        LET c == calls[k]
        IN  c.op = "generateMultiPagePdf" /\ c.pc # "resolved" =>
                /\ \A j \in 1..Len(c.buffers) :
                       GivesBoth(c.pageData[j]) =>
                           c.buffers[j][1].html = FileText(c.pageData[j].templatePath)
                /\ c.i >= 1 /\ GivesBoth(c.pageData[c.i]) =>
                       LET path == c.pageData[c.i].templatePath
                       IN  /\ Rendering(c) =>
                                  Readable(path) /\ c.html = FileText(path)
                           /\ ~Readable(path) =>
                                  /\ c.pc \in {"readFile", "rejected"}
                                  /\ c.launches = c.i - 1
                                  /\ Rejected(c) =>
                                         Contains(c.error, path)

\* the first specification, with a content and a readable template, was
\* rendered from the file, and the call has rejected at the second, with a
\* content and a missing template
C14_FileRenderedThenMissing ==
    \E k \in DOMAIN calls :
        /\ calls[k].op = "generateMultiPagePdf"
        /\ Rejected(calls[k])
        /\ calls[k].i = 2
        /\ calls[k].pageData[1] = [content |-> "A", templatePath |-> IndexHtml]
        /\ calls[k].pageData[2] = [content |-> "A", templatePath |-> MissingPath]
        /\ Len(calls[k].buffers) = 1
        /\ calls[k].buffers[1][1].html = FileText(IndexHtml)
        /\ Contains(calls[k].error, MissingPath)

\* C15: page.pdf of the render of a page specification is given exactly the
\* specification's pdfOptions, and the empty options when it has none; so
\* were the renders of the specifications before it.
C15_OptionsOfTheSpec ==
    \A k \in DOMAIN calls :
        LET c == calls[k]
        IN  c.op = "generateMultiPagePdf" /\ c.pc # "resolved" =>
                /\ \A j \in 1..Len(c.buffers) :
                       c.buffers[j][1].options = OrEmpty(c.pageData[j], "pdfOptions")
                /\ c.pc \in {"pdf", "close"} =>
                       c.options = OrEmpty(c.pageData[c.i], "pdfOptions")

\* on an instance constructed with the default format, the first
\* specification was rendered with its own format and the second, which
\* gives no options, with none
C15_NoOptionCarriedOver ==
    \E k \in DOMAIN calls :
        /\ Rendering(calls[k])
        /\ calls[k].pc = "close"
        /\ calls[k].i = 2
        /\ "pdfOptions" \notin DOMAIN calls[k].pageData[2]
        /\ calls[k].result[1].options = EmptyObj
        /\ OrEmpty(calls[k].pageData[1], "pdfOptions") = [format |-> "Letter"]
        /\ calls[k].buffers[1][1].options = [format |-> "Letter"]

----------------------------------------------------------------------------
(* generateMultiPagePdf: one page at a time *)

\* C16: a generateMultiPagePdf call has at most one of its browsers open at
\* any time; when the intake or the launch for the specification at position
\* i begins, the i - 1 renders before it have given their buffers and none
\* of the call's browsers is open, and during the render of specification i
\* the only one open is the i-th.
C16_OnePageAtATime ==
    \A k \in DOMAIN calls :
        LET c == calls[k]
        IN  c.op = "generateMultiPagePdf" =>
                /\ Cardinality(OpenOf(k)) <= 1
                /\ c.pc \in {"readFile", "launch"} =>
                       /\ OpenOf(k) = {}
                       /\ c.launches = c.i - 1
                       /\ Len(c.buffers) = c.i - 1
                /\ c.pc \in {"newPage", "evaluate", "setContent", "pdf", "close"} =>
                       /\ OpenOf(k) = {<<k, c.i>>}
                       /\ c.launches = c.i
                       /\ Len(c.buffers) = c.i - 1

\* the browser of the third specification's render is open, the two before
\* it are closed and their buffers held
C16_ThirdPageRendering ==
    \E k \in DOMAIN calls :
        /\ calls[k].op = "generateMultiPagePdf"
        /\ calls[k].pc = "pdf"
        /\ calls[k].i = 3
        /\ browsers = {<<k, 3>>}
        /\ Len(calls[k].buffers) = 2

----------------------------------------------------------------------------
(* mergePDFs: the caller's array *)

\* C17: after mergePDFs has returned, the array it was given has lost its
\* first element; a second call on the same array is given that shorter
\* array and does not return the same document; and the array
\* generateMultiPagePdf built holds, after the call returned, the buffers of
\* the second to the last page specification only.
C17_MergeShiftsTheList ==
    [][/\ merged'.state = "returned" =>
              /\ list' = Tail(merged'.input)
              /\ Len(list') = Len(merged'.input) - 1
       /\ merged.state = "returned" /\ merged'.state = "returned"
              /\ merged' # merged =>
              /\ merged'.input = Tail(merged.input)
              /\ merged'.out # merged.out
       /\ \A k \in DOMAIN calls' :
              LET c == calls'[k]
                  rest == AppendAll(<<>>, c.buffers)
              IN  c.op = "generateMultiPagePdf" /\ c.pc = "resolved" =>
                      /\ Len(c.buffers) = Len(c.pageData) - 1
                      /\ Len(rest) < Len(c.result)
                      /\ rest = SubSeq(c.result, Len(c.result) - Len(rest) + 1,
                                       Len(c.result))]_vars

\* an array of three buffers was merged and holds the last two
C17_ArrayShortened ==
    /\ merged.state = "returned"
    /\ Len(merged.input) = 3
    /\ merged.input[1] # merged.input[2]
    /\ list = <<merged.input[2], merged.input[3]>>

----------------------------------------------------------------------------
(* generateMultiPagePdf: what it leaves in the fields *)

\* the intake of the page specification stores a content: a template that
\* can be read, or else a content
Stores(page) ==
    IF Truthy(page, "templatePath") THEN Readable(page.templatePath)
    ELSE Truthy(page, "content")

\* the content it stores
Stored(page) ==
    IF Truthy(page, "templatePath") THEN FileText(page.templatePath)
    ELSE page.content

\* the position up to which the call has run the intake
IntakesRun(c) == IF c.pc = "readFile" THEN c.i - 1 ELSE c.i

\* the position of the last specification whose intake stored a content, 0
\* when there is none
LastStored(c) ==
    LET S == {j \in 1..IntakesRun(c) : Stores(c.pageData[j])}
    IN  IF S = {} THEN 0 ELSE CHOOSE j \in S : \A m \in S : m <= j

\* the position of the last specification whose options were applied: the
\* one the call is at, unless its template is being read or could not be read
OptionsApplied(c) ==
    IF c.i = 0 THEN 0
    ELSE IF \/ c.pc = "readFile"
            \/ /\ Truthy(c.pageData[c.i], "templatePath")
               /\ ~Readable(c.pageData[c.i].templatePath)
         THEN c.i - 1
         ELSE c.i

\* C18: during and after a generateMultiPagePdf call, returned or rejected,
\* this.data is the content of the last page specification whose intake
\* stored one, and what it was before when none did; this.pdfOptions is the
\* pdfOptions of the last specification whose options were applied, empty
\* when it has none, and what it was before when none were; each page is
\* rendered from this.data as it is then; and the generatePdf() called
\* afterwards returns the render of these fields.
C18_FieldsLeftBehind ==
    [][\A k \in DOMAIN calls' :
          LET c == calls'[k]
          IN  /\ c.op = "generateMultiPagePdf" =>
                     /\ data' = IF LastStored(c) = 0 THEN data
                                ELSE Stored(c.pageData[LastStored(c)])
                     /\ pdfOptions' =
                            IF OptionsApplied(c) = 0 THEN pdfOptions
                            ELSE OrEmpty(c.pageData[OptionsApplied(c)], "pdfOptions")
                     /\ Rendering(c) => c.html = data'
              /\ c.op = "generatePdf" /\ c.pc = "resolved" =>
                     /\ calls'[1].op = "generateMultiPagePdf"
                     /\ c.result = Render(data', pdfOptions', [pageNumber |-> 1])]_vars

\* after a call whose first specification gave the two-page content and a
\* format and whose second gave neither content nor options, generatePdf()
\* has returned the two-page content rendered with no options
C18_LeftoverRendered ==
    /\ Len(calls) = 2
    /\ calls[1].op = "generateMultiPagePdf"
    /\ calls[1].pc = "resolved"
    /\ calls[1].pageData = <<[content |-> "B", props |-> [pageNumber |-> 7],
                              pdfOptions |-> [format |-> "Letter"]],
                             [props |-> [title |-> "t"]]>>
    /\ calls[2].pc = "resolved"
    /\ calls[2].result = Render("B", EmptyObj, [pageNumber |-> 1])
    /\ data = "B"
    /\ pdfOptions = EmptyObj

----------------------------------------------------------------------------
(* generateMultiPagePdf: no page specification *)

\* C19: a generateMultiPagePdf call given an empty array has rejected, from
\* its invocation on, with the multi-page error that wraps the error of
\* mergePDFs; it has launched no browser and returned no buffer, and the
\* step of its invocation leaves this.data, this.pdfOptions and the open
\* browsers as they were.
C19_NoPagesRejects ==
    [][\A k \in DOMAIN calls' :
          LET c == calls'[k]
          IN  c.op = "generateMultiPagePdf" /\ c.pageData = <<>> =>
                  /\ Rejected(c)
                  /\ c.error = MultiPageMessage(NoBufferError)
                  /\ c.launches = 0
                  /\ {s \in browsers' : s[1] = k} = {}
                  /\ c.result = <<>>
                  /\ k \notin DOMAIN calls =>
                         /\ data' = data
                         /\ pdfOptions' = pdfOptions
                         /\ browsers' = browsers]_vars

\* on an instance whose content and options a caller had set, a call given
\* an empty array has rejected and the fields are as set
C19_EmptyArrayRejected ==
    \E k \in DOMAIN calls :
        /\ calls[k].op = "generateMultiPagePdf"
        /\ calls[k].pageData = <<>>
        /\ Rejected(calls[k])
        /\ Contains(calls[k].error, "Generate Multi Page PDF Error: ")
        /\ browsers = {}
        /\ data = "B"
        /\ pdfOptions = [format |-> "A7x"]

====
